---- MODULE Spec2Model ----
(***************************************************************************)
(* Model of the remote directory browser of 1lab/server.py: the server's   *)
(* shared root_dir, its list of client sockets, one worker thread per     *)
(* connection running handle_client, and get_files_info, the bounded      *)
(* directory lister.                                                       *)
(*                                                                         *)
(* A Python str is a sequence of Unicode code points (47 is "/", 46 is    *)
(* ".", 32 is " ", 97.. are "a"..).  On the server's side a send is kept  *)
(* as its content (a header's bytes, a str, a dict) and its length in     *)
(* bytes, computed from the code points the way str.encode and json.dumps *)
(* produce them; SendBytes gives the bytes of a send.  The last part      *)
(* models the client's receive_message (1lab/client.py) on the bytes of   *)
(* a stream.                                                               *)
(***************************************************************************)
EXTENDS Integers, Sequences, FiniteSets, Bags, TLC

(***************************************************************************)
(* Generic sequence helpers                                                *)
(***************************************************************************)
Range(s) == {s[i] : i \in 1..Len(s)}

Front(s) == SubSeq(s, 1, Len(s) - 1)

Last(s) == s[Len(s)]

Take(s, n) == SubSeq(s, 1, IF n < Len(s) THEN n ELSE Len(s))

StartsWith(s, p) == Len(s) >= Len(p) /\ SubSeq(s, 1, Len(p)) = p

RECURSIVE Flatten(_)
Flatten(ss) ==
    IF Len(ss) = 0 THEN <<>>
    ELSE IF Len(ss) = 1 THEN ss[1]
    ELSE LET half == Len(ss) \div 2
         IN  Flatten(SubSeq(ss, 1, half)) \o Flatten(SubSeq(ss, half + 1, Len(ss)))

\* f[1] + ... + f[n] for a sequence f of positive numbers: the size of the bag
\* with f[i] copies of i
Sum(f) == BagCardinality(f)

(***************************************************************************)
(* str literals of the program                                             *)
(***************************************************************************)
SEP == <<47>>

CURDIR == <<46>>

PARDIR == <<46, 46>>

CMD_LS == <<108, 115>>

CMD_CD == <<99, 100>>

\* "ОК" (Cyrillic letters)
MSG_OK == <<1054, 1050>>

\* "Невозможно перейти выше корневой директории"
MSG_ABOVE_ROOT == <<1053, 1077, 1074, 1086, 1079, 1084, 1086, 1078, 1085, 1086, 32, 1087, 1077, 1088, 1077, 1081, 1090, 1080, 32, 1074, 1099, 1096, 1077, 32, 1082, 1086, 1088, 1085, 1077, 1074, 1086, 1081, 32, 1076, 1080, 1088, 1077, 1082, 1090, 1086, 1088, 1080, 1080>>

\* "Неверный путь к директории"
MSG_INVALID_PATH == <<1053, 1077, 1074, 1077, 1088, 1085, 1099, 1081, 32, 1087, 1091, 1090, 1100, 32, 1082, 32, 1076, 1080, 1088, 1077, 1082, 1090, 1086, 1088, 1080, 1080>>

\* "Неизвестная команда"
MSG_UNKNOWN == <<1053, 1077, 1080, 1079, 1074, 1077, 1089, 1090, 1085, 1072, 1103, 32, 1082, 1086, 1084, 1072, 1085, 1076, 1072>>

\* "Ошибка при обработке запроса"
MSG_REQUEST_ERROR == <<1054, 1096, 1080, 1073, 1082, 1072, 32, 1087, 1088, 1080, 32, 1086, 1073, 1088, 1072, 1073, 1086, 1090, 1082, 1077, 32, 1079, 1072, 1087, 1088, 1086, 1089, 1072>>

\* "Путь не существует"
MSG_NO_PATH == <<1055, 1091, 1090, 1100, 32, 1085, 1077, 32, 1089, 1091, 1097, 1077, 1089, 1090, 1074, 1091, 1077, 1090>>

\* "Показана только часть структуры каталогов из-за ограничения размера ответа"
MSG_PARTIAL == <<1055, 1086, 1082, 1072, 1079, 1072, 1085, 1072, 32, 1090, 1086, 1083, 1100, 1082, 1086, 32, 1095, 1072, 1089, 1090, 1100, 32, 1089, 1090, 1088, 1091, 1082, 1090, 1091, 1088, 1099, 32, 1082, 1072, 1090, 1072, 1083, 1086, 1075, 1086, 1074, 32, 1080, 1079, 45, 1079, 1072, 32, 1086, 1075, 1088, 1072, 1085, 1080, 1095, 1077, 1085, 1080, 1103, 32, 1088, 1072, 1079, 1084, 1077, 1088, 1072, 32, 1086, 1090, 1074, 1077, 1090, 1072>>

\* "Показано "
W_SHOWN == <<1055, 1086, 1082, 1072, 1079, 1072, 1085, 1086, 32>>

\* " директорий и "
W_DIRS_AND == <<32, 1076, 1080, 1088, 1077, 1082, 1090, 1086, 1088, 1080, 1081, 32, 1080, 32>>

\* " файлов из "
W_FILES_OF == <<32, 1092, 1072, 1081, 1083, 1086, 1074, 32, 1080, 1079, 32>>

\* " файлов"
W_FILES == <<32, 1092, 1072, 1081, 1083, 1086, 1074>>

KEY_DIRS == <<100, 105, 114, 115>>

KEY_FILES == <<102, 105, 108, 101, 115>>

KEY_WARNING == <<119, 97, 114, 110, 105, 110, 103>>

KEY_CURRENT_PATH == <<99, 117, 114, 114, 101, 110, 116, 95, 112, 97, 116, 104>>

KEY_ERROR == <<101, 114, 114, 111, 114>>

MAX_ITEMS == 100

MAX_RESPONSE_SIZE == 2048

(***************************************************************************)
(* str.split(), str(int), str.encode('utf-8'), struct.pack('!I', n)        *)
(***************************************************************************)
\* the characters str.split() treats as whitespace (str.isspace)
IsSpace(cp) ==
    \/ cp \in {9, 10, 11, 12, 13, 28, 29, 30, 31, 32, 133, 160, 5760}
    \/ (cp >= 8192 /\ cp <= 8202)
    \/ cp \in {8232, 8233, 8239, 8287, 12288}

\* data.split(): maximal runs of non-whitespace characters, in order
RECURSIVE SplitFrom(_, _, _)
SplitFrom(data, i, cur) ==
    IF i > Len(data)
    THEN IF cur = <<>> THEN <<>> ELSE <<cur>>
    ELSE IF IsSpace(data[i])
         THEN IF cur = <<>>
              THEN SplitFrom(data, i + 1, <<>>)
              ELSE <<cur>> \o SplitFrom(data, i + 1, <<>>)
         ELSE SplitFrom(data, i + 1, Append(cur, data[i]))

split(data) == SplitFrom(data, 1, <<>>)

\* str(n) for n >= 0: its decimal digits
RECURSIVE DecStr(_)
DecStr(n) == IF n < 10 THEN <<48 + n>> ELSE Append(DecStr(n \div 10), 48 + (n % 10))

\* number of bytes of one code point in UTF-8
Utf8Width(cp) == IF cp < 128 THEN 1 ELSE IF cp < 2048 THEN 2 ELSE IF cp < 65536 THEN 3 ELSE 4

\* len(s.encode('utf-8'))
Utf8Len(s) == Sum([i \in 1..Len(s) |-> Utf8Width(s[i])])

\* struct.pack('!I', n): four bytes, most significant first
pack(n) == << (n \div 16777216) % 256, (n \div 65536) % 256, (n \div 256) % 256, n % 256 >>

\* struct.unpack('!I', b)[0]
unpack(b) == ((b[1] * 256 + b[2]) * 256 + b[3]) * 256 + b[4]

(***************************************************************************)
(* os.path (posixpath)                                                     *)
(***************************************************************************)
\* os.path.join(a, b)
join(a, b) ==
    IF StartsWith(b, SEP) THEN b
    ELSE IF a = <<>> \/ Last(a) = SEP[1] THEN a \o b
    ELSE a \o SEP \o b

\* index of the last "/" of p, 0 when there is none (p.rfind(sep) + 1)
RECURSIVE RFindSep(_, _)
RFindSep(p, i) == IF i = 0 THEN 0 ELSE IF p[i] = SEP[1] THEN i ELSE RFindSep(p, i - 1)

\* s.rstrip("/")
RECURSIVE RStripSep(_)
RStripSep(s) == IF s # <<>> /\ Last(s) = SEP[1] THEN RStripSep(Front(s)) ELSE s

\* os.path.dirname(p)
dirname(p) ==
    LET head == SubSeq(p, 1, RFindSep(p, Len(p)))
    IN  IF head # <<>> /\ RStripSep(head) # <<>> THEN RStripSep(head) ELSE head

\* p.split("/"): the components between separators, empty ones included
RECURSIVE SepSplitFrom(_, _, _)
SepSplitFrom(p, i, cur) ==
    IF i > Len(p) THEN <<cur>>
    ELSE IF p[i] = SEP[1] THEN <<cur>> \o SepSplitFrom(p, i + 1, <<>>)
    ELSE SepSplitFrom(p, i + 1, Append(cur, p[i]))

SepSplit(p) == SepSplitFrom(p, 1, <<>>)

\* "/".join(comps)
RECURSIVE SepJoin(_)
SepJoin(comps) ==
    IF comps = <<>> THEN <<>>
    ELSE IF Len(comps) = 1 THEN comps[1]
    ELSE comps[1] \o SEP \o SepJoin(Tail(comps))

\* the component loop of os.path.normpath
RECURSIVE NormComps(_, _, _)
NormComps(comps, new, initial) ==
    IF comps = <<>> THEN new
    ELSE LET comp == Head(comps)
         IN  IF comp = <<>> \/ comp = CURDIR
             THEN NormComps(Tail(comps), new, initial)
             ELSE IF comp # PARDIR \/ (initial = 0 /\ new = <<>>)
                     \/ (new # <<>> /\ Last(new) = PARDIR)
             THEN NormComps(Tail(comps), Append(new, comp), initial)
             ELSE IF new # <<>>
             THEN NormComps(Tail(comps), Front(new), initial)
             ELSE NormComps(Tail(comps), new, initial)

\* os.path.normpath(path)
normpath(path) ==
    IF path = <<>> THEN CURDIR
    ELSE LET initial == IF ~StartsWith(path, SEP) THEN 0
                        ELSE IF StartsWith(path, SEP \o SEP) /\ ~StartsWith(path, SEP \o SEP \o SEP)
                             THEN 2 ELSE 1
             body == SepJoin(NormComps(SepSplit(path), <<>>, initial))
             res == (IF initial = 2 THEN SEP \o SEP ELSE IF initial = 1 THEN SEP ELSE <<>>) \o body
         IN  IF res = <<>> THEN CURDIR ELSE res

\* the non-empty components of a path
Segments(p) == SelectSeq(SepSplit(p), LAMBDA c : c # <<>>)

\* length of the longest common prefix of two component lists
RECURSIVE CommonLen(_, _)
CommonLen(a, b) ==
    IF a = <<>> \/ b = <<>> \/ Head(a) # Head(b) THEN 0
    ELSE 1 + CommonLen(Tail(a), Tail(b))

\* os.path.relpath(path, start), both absolute
relpath(path, start) ==
    LET start_list == Segments(normpath(start))
        path_list == Segments(normpath(path))
        i == CommonLen(start_list, path_list)
        rel_list == [k \in 1..(Len(start_list) - i) |-> PARDIR]
                    \o SubSeq(path_list, i + 1, Len(path_list))
    IN  IF rel_list = <<>> THEN CURDIR ELSE SepJoin(rel_list)

(***************************************************************************)
(* The directory tree the server browses.  It does not change while the   *)
(* server runs.  A node is the list of names from "/" down to it; each    *)
(* directory gives its subdirectories and files in the order the          *)
(* directory read (os.scandir) yields them.                               *)
(***************************************************************************)
N_s == <<115>>

N_p == <<112>>

N_a == <<97>>

N_g == <<103>>

N_f == <<102>>

N_w == <<119>>

N_u == <<117>>

\* a directory of /s/p with the name of the response field "current_path"
N_c == KEY_CURRENT_PATH

\* number of files of the large directory /s/p/g
BigDirFiles == 60

\* number of files of the wide directory /s/w; the i-th one is named by the
\* decimal digits of i
ManyFiles == 500

\* the i-th file of /s/p/g: three characters outside the Basic Multilingual
\* Plane (emoji), the last one telling the files apart
LongName(i) == <<128512, 128512, 128512 + i>>

\* the server's installation directory, "/s/p"
InstallDir == SEP \o N_s \o SEP \o N_p

\* subdirectory names of a directory node, in enumeration order
SubDirs(node) ==
    IF node = <<>> THEN <<N_s>>
    ELSE IF node = <<N_s>> THEN <<N_p, N_w>>
    ELSE IF node = <<N_s, N_p>> THEN <<N_c, N_g, N_a>>
    ELSE IF node = <<N_s, N_p, N_a>> THEN <<N_a, N_u>>
    ELSE <<>>

\* /s/p/a/u is a directory of mode 000: the server may neither read it
\* (os.scandir raises PermissionError) nor search it
Unreadable(node) == node = <<N_s, N_p, N_a, N_u>>

\* file names of a directory node, in enumeration order
FilesOf(node) ==
    IF node = <<N_s, N_p>> THEN <<N_f>>
    ELSE IF node = <<N_s, N_w>> THEN [i \in 1..ManyFiles |-> DecStr(i)]
    ELSE IF node = <<N_s, N_p, N_g>> THEN [i \in 1..BigDirFiles |-> LongName(i)]
    ELSE <<>>

NoNode == [ok |-> FALSE, isdir |-> FALSE, node |-> <<>>]

\* path resolution of an absolute path, one component at a time: "" and "."
\* stay, ".." goes to the parent ("/" is its own parent), a name goes to the
\* child; nothing can follow a file, and only "" (a trailing separator) can
\* follow a directory that may not be searched
RECURSIVE ResolveFrom(_, _, _)
ResolveFrom(comps, node, isdir) ==
    IF comps = <<>> THEN [ok |-> TRUE, isdir |-> isdir, node |-> node]
    ELSE IF ~isdir THEN NoNode
    ELSE LET comp == Head(comps)
         IN  IF Unreadable(node) /\ comp # <<>> THEN NoNode
             ELSE IF comp = <<>> \/ comp = CURDIR THEN ResolveFrom(Tail(comps), node, TRUE)
             ELSE IF comp = PARDIR
             THEN ResolveFrom(Tail(comps), IF node = <<>> THEN node ELSE Front(node), TRUE)
             ELSE IF comp \in Range(SubDirs(node))
             THEN ResolveFrom(Tail(comps), Append(node, comp), TRUE)
             ELSE IF comp \in Range(FilesOf(node))
             THEN ResolveFrom(Tail(comps), Append(node, comp), FALSE)
             ELSE NoNode

Resolve(path) == IF StartsWith(path, SEP) THEN ResolveFrom(SepSplit(path), <<>>, TRUE) ELSE NoNode

\* os.path.exists(path)
exists(path) == Resolve(path).ok

\* os.path.isdir(path)
isdir(path) == LET r == Resolve(path) IN r.ok /\ r.isdir

\* os.listdir order of the directory a path names
ListDirs(path) == SubDirs(Resolve(path).node)

ListFiles(path) == FilesOf(Resolve(path).node)

\* the roots os.walk(top) yields, top-down.  os.walk is called without
\* onerror: the error of a directory that cannot be scanned is swallowed, the
\* directory yields nothing and the walk goes on with the next one
RECURSIVE WalkDir(_)
WalkDir(top) ==
    IF Unreadable(Resolve(top).node) THEN <<>>
    ELSE <<top>> \o Flatten([i \in 1..Len(ListDirs(top)) |->
                                 WalkDir(join(top, ListDirs(top)[i]))])

walk(top) == IF isdir(top) THEN WalkDir(top) ELSE <<>>

(***************************************************************************)
(* dict and json.dumps.  A dict is the sequence of its items in insertion *)
(* order; an item's value is a str (kind "str") or a directory entry      *)
(* {'dirs': [...], 'files': [...], 'warning': ...} (kind "entry").        *)
(***************************************************************************)
StrItem(k, s) ==
    [k |-> k, kind |-> "str", s |-> s, dirs |-> <<>>, files |-> <<>>, hasw |-> FALSE, w |-> <<>>]

EntryItem(k, dirs, files) ==
    [k |-> k, kind |-> "entry", s |-> <<>>, dirs |-> dirs, files |-> files, hasw |-> FALSE, w |-> <<>>]

DictHas(d, k) == \E i \in 1..Len(d) : d[i].k = k

DictGet(d, k) == d[CHOOSE i \in 1..Len(d) : d[i].k = k]

\* d[item.k] = item: an existing key keeps its place
DictSet(d, item) ==
    IF DictHas(d, item.k)
    THEN [i \in 1..Len(d) |-> IF d[i].k = item.k THEN item ELSE d[i]]
    ELSE Append(d, item)

\* characters one code point takes in json.dumps output (ensure_ascii)
EscWidth(cp) ==
    IF cp = 34 \/ cp = 92 THEN 2
    ELSE IF cp \in {8, 9, 10, 12, 13} THEN 2
    ELSE IF cp >= 32 /\ cp <= 126 THEN 1
    ELSE IF cp < 65536 THEN 6
    ELSE 12

JsonStrLen(s) == 2 + Sum([i \in 1..Len(s) |-> EscWidth(s[i])])

JsonListLen(names) ==
    2 + Sum([i \in 1..Len(names) |-> JsonStrLen(names[i])])
      + (IF Len(names) > 1 THEN 2 * (Len(names) - 1) ELSE 0)

JsonEntryLen(e) ==
    2 + (JsonStrLen(KEY_DIRS) + 2 + JsonListLen(e.dirs))
      + 2 + (JsonStrLen(KEY_FILES) + 2 + JsonListLen(e.files))
      + (IF e.hasw THEN 2 + JsonStrLen(KEY_WARNING) + 2 + JsonStrLen(e.w) ELSE 0)

JsonItemLen(it) ==
    JsonStrLen(it.k) + 2 + (IF it.kind = "str" THEN JsonStrLen(it.s) ELSE JsonEntryLen(it))

\* len(json.dumps(d).encode('utf-8')): the text is ASCII, one byte per character
json_len(d) ==
    2 + Sum([i \in 1..Len(d) |-> JsonItemLen(d[i])])
      + (IF Len(d) > 1 THEN 2 * (Len(d) - 1) ELSE 0)

\* the digit of n (0..15) in lower-case hexadecimal
HexDigit(n) == IF n < 10 THEN 48 + n ELSE 87 + n

\* \uXXXX for a 16-bit value
EscU(n) ==
    <<92, 117, HexDigit(n \div 4096), HexDigit((n \div 256) % 16), HexDigit((n \div 16) % 16),
      HexDigit(n % 16)>>

\* the characters of one code point in json.dumps output (ensure_ascii): the
\* short escapes, the character itself for printable ASCII, \uXXXX for the
\* rest, a surrogate pair above U+FFFF
JsonEsc(cp) ==
    IF cp = 34 \/ cp = 92 THEN <<92, cp>>
    ELSE IF cp = 8 THEN <<92, 98>>
    ELSE IF cp = 9 THEN <<92, 116>>
    ELSE IF cp = 10 THEN <<92, 110>>
    ELSE IF cp = 12 THEN <<92, 102>>
    ELSE IF cp = 13 THEN <<92, 114>>
    ELSE IF cp >= 32 /\ cp <= 126 THEN <<cp>>
    ELSE IF cp < 65536 THEN EscU(cp)
    ELSE EscU(55296 + ((cp - 65536) \div 1024)) \o EscU(56320 + ((cp - 65536) % 1024))

\* ', '.join of the texts
JoinComma(texts) ==
    Flatten([i \in 1..Len(texts) |-> IF i = 1 THEN texts[i] ELSE <<44, 32>> \o texts[i]])

JsonStr(s) == <<34>> \o Flatten([i \in 1..Len(s) |-> JsonEsc(s[i])]) \o <<34>>

JsonList(names) == <<91>> \o JoinComma([i \in 1..Len(names) |-> JsonStr(names[i])]) \o <<93>>

JsonEntry(e) ==
    <<123>> \o JsonStr(KEY_DIRS) \o <<58, 32>> \o JsonList(e.dirs)
            \o <<44, 32>> \o JsonStr(KEY_FILES) \o <<58, 32>> \o JsonList(e.files)
            \o (IF e.hasw THEN <<44, 32>> \o JsonStr(KEY_WARNING) \o <<58, 32>> \o JsonStr(e.w)
                ELSE <<>>)
            \o <<125>>

JsonItem(it) ==
    JsonStr(it.k) \o <<58, 32>> \o (IF it.kind = "str" THEN JsonStr(it.s) ELSE JsonEntry(it))

\* json.dumps(d): the text, all of it ASCII
json_dumps(d) == <<123>> \o JoinComma([i \in 1..Len(d) |-> JsonItem(d[i])]) \o <<125>>

(***************************************************************************)
(* get_files_info, between two reads of self.root_dir                     *)
(***************************************************************************)
\* the trial response without the current_path field
test_response_no_path(files_info, relative_root, dirs_to_show, files_to_show, root) ==
    DictSet(files_info, EntryItem(relative_root, dirs_to_show, files_to_show))

\* lines 231-238 and 251-258: the trial response
test_response(files_info, relative_root, dirs_to_show, files_to_show, root) ==
    DictSet(DictSet(files_info, EntryItem(relative_root, dirs_to_show, files_to_show)),
            StrItem(KEY_CURRENT_PATH, root))

\* the warning with the totals where the shown counts belong
entry_warning_swapped(nd, nf, td, tf) ==
    W_SHOWN \o DecStr(td) \o W_DIRS_AND \o DecStr(tf) \o W_FILES_OF
            \o DecStr(nd) \o W_DIRS_AND \o DecStr(nf) \o W_FILES

\* lines 267-270: the warning of one entry
entry_warning(nd, nf, td, tf) ==
    W_SHOWN \o DecStr(nd) \o W_DIRS_AND \o DecStr(nf) \o W_FILES_OF
            \o DecStr(td) \o W_DIRS_AND \o DecStr(tf) \o W_FILES

\* lines 261-270: the entry is stored, with a warning when names were left out
add_entry(files_info, relative_root, dirs_to_show, files_to_show, dirs, files) ==
    LET e == EntryItem(relative_root, dirs_to_show, files_to_show)
    IN  IF Len(dirs) + Len(files) > Len(dirs_to_show) + Len(files_to_show)
        THEN DictSet(files_info,
                     [e EXCEPT !.hasw = TRUE,
                               !.w = entry_warning(Len(dirs_to_show), Len(files_to_show),
                                                   Len(dirs), Len(files))])
        ELSE DictSet(files_info, e)

\* line 272: the walk stops after this level
walk_stops(files_info, adding_allow) ==
    json_len(files_info) > MAX_RESPONSE_SIZE \/ ~adding_allow

(***************************************************************************)
(* The server: Server.root_dir and Server.clients are shared by the       *)
(* accept loop and the worker threads, with no lock.  A worker step is    *)
(* the code between two accesses of self.root_dir, or one call of recv or *)
(* send on the worker's socket.                                           *)
(***************************************************************************)
\* the connections (client sockets) of the run
Clients == {"c1", "c2"}

\* inputs of one run: the commands all clients together send, the
\* disconnects of clients (close or reset), and the interrupt that stops
\* the server
MaxInputs == 2

\* what a client may send in one socket.send: "ls", "ls g", "ls w", "ls a",
\* "cd ..", "cd a", "cd a/", "cd /", "cd x", "cd", "xx a", " "
Commands ==
    { <<108, 115>>, <<108, 115, 32, 103>>, <<108, 115, 32, 119>>, <<108, 115, 32, 97>>,
      <<99, 100, 32, 46, 46>>, <<99, 100, 32, 97>>, <<99, 100, 32, 97, 47>>,
      <<99, 100, 32, 47>>, <<99, 100, 32, 120>>, <<99, 100>>,
      <<120, 120, 32, 97>>, <<32>> }

VARIABLES
    root_dir,   \* Server.root_dir
    clients,    \* Server.clients, a list of sockets
    conn,       \* per connection, the peer's end: "new", "open", "closed" (peer closed),
                \* "closed_written" (peer closed and the server has written to it
                \* since), "reset" (peer reset)
    inbox,      \* per connection: the bytes the client sent that recv has not returned yet
    pc,         \* per connection: where its handle_client thread is
    frame,      \* per connection: the local variables of its thread
    sent,       \* per connection: the send() calls that succeeded since the client's
                \* last command
    ninput,     \* inputs of the run so far: commands sent, disconnects of clients,
                \* the interrupt of the server
    hist,       \* the last cd answered: its argument, the values of self.root_dir it
                \* validated against, read, replaced and stored, and its response
    rcv,        \* client.py: one call of Client.receive_message and the stream it reads
    stop,       \* Server.stop: 0 while the accept loop runs, k > 0 when its loop over
                \* self.clients is at position k, -1 once it has returned
    shut        \* the client sockets Server.stop has closed

vars == <<root_dir, clients, conn, inbox, pc, frame, sent, ninput, hist, rcv, stop, shut>>

Frame0 ==
    [ command |-> <<>>, new_root |-> <<>>, path |-> <<>>, checked_root |-> <<>>, seen_root |-> <<>>,
      files_info |-> <<>>, roots |-> <<>>, lvl |-> 0, relative_root |-> <<>>,
      dirs_to_show |-> <<>>, files_to_show |-> <<>>, response |-> <<>>, raised |-> "none" ]

\* one client_socket.send(...) call
HeaderSend(n) == [kind |-> "header", len |-> 4, bytes |-> pack(n), text |-> <<>>, obj |-> <<>>]

TextSend(s) == [kind |-> "text", len |-> Utf8Len(s), bytes |-> <<>>, text |-> s, obj |-> <<>>]

JsonSend(d) == [kind |-> "json", len |-> json_len(d), bytes |-> <<>>, text |-> <<>>, obj |-> d]

\* a str response written twice
framed_twice(response) ==
    << HeaderSend(Utf8Len(response)), TextSend(response),
       HeaderSend(Utf8Len(response)), TextSend(response) >>

\* lines 139-142, 146-150, 155-157, 161-163, 167-169: a str response, length first
framed(response) == << HeaderSend(Utf8Len(response)), TextSend(response) >>

\* lines 122-125: the listing as JSON, length first
framed_json(files_info) == << HeaderSend(json_len(files_info)), JsonSend(files_info) >>

\* lines 179-180: the notification of the except branch
error_notice == << TextSend(MSG_REQUEST_ERROR) >>

\* what one client_socket.send(...) of the worker of c does: "ok", or the
\* exception it raises.  A socket Server.stop has closed raises OSError; a
\* connection the peer has reset raises ConnectionResetError; after the peer
\* closed, the first send is accepted and a later one is accepted or raises
\* BrokenPipeError, as the peer's answer to the first one has come or not
SendOutcomes(c) ==
    IF c \in shut THEN {"OSError"}
    ELSE IF conn[c] = "reset" THEN {"ConnectionResetError"}
    ELSE IF conn[c] = "closed_written" THEN {"ok", "BrokenPipeError"}
    ELSE {"ok"}

\* the peer's end after the server has written to it
Written(state) == IF state = "closed" THEN "closed_written" ELSE state

\* self.clients.remove(client_socket): the first occurrence goes
RECURSIVE remove(_, _)
remove(list, c) ==
    IF list = <<>> THEN <<>>
    ELSE IF Head(list) = c THEN Tail(list) ELSE <<Head(list)>> \o remove(Tail(list), c)

\* dispatch with the final else branch lost: every verb but 'ls' is taken for 'cd'
dispatch_no_else(command) == IF command = CMD_LS THEN "ls" ELSE "cd"

\* command == 'ls' / command == 'cd' / else (lines 115, 129, 164)
dispatch(command) == IF command = CMD_LS THEN "ls" ELSE IF command = CMD_CD THEN "cd" ELSE "unknown"

\* validate_new_root testing the root instead of the joined path
validate_root_only(root, new_root) == exists(root) /\ isdir(root)

\* validate_new_root, with the value of self.root_dir it reads
validate_new_root(root, new_root) ==
    LET full_path == join(root, new_root)
    IN  exists(full_path) /\ isdir(full_path)

\* the record of one assignment of self.root_dir
Stored(arg, checked, read, before, after, response) ==
    [arg |-> arg, checked |-> checked, read |-> read, before |-> before, after |-> after,
     response |-> response]

\* no cd answered yet
NoStore == Stored(<<>>, <<>>, <<>>, <<>>, <<>>, <<>>)

\* no call of receive_message yet
NoResult == [kind |-> "pending", text |-> <<>>]

\* a client that is not receiving
RcvIdle ==
    [ pc |-> "idle", tosend |-> <<>>, wire |-> <<>>, eof |-> FALSE, reset |-> FALSE,
      length_bytes |-> <<0, 0, 0, 0>>, bytes_received |-> 0, chunks |-> <<>>, result |-> NoResult ]

\* Server.__init__ (lines 47-56), before any connection
ServerInit ==
    /\ root_dir = InstallDir
    /\ clients = <<>>
    /\ conn = [c \in Clients |-> "new"]
    /\ inbox = [c \in Clients |-> <<>>]
    /\ pc = [c \in Clients |-> "none"]
    /\ frame = [c \in Clients |-> Frame0]
    /\ sent = [c \in Clients |-> <<>>]
    /\ ninput = 0
    /\ hist = NoStore
    /\ stop = 0
    /\ shut = {}

Init == ServerInit /\ rcv = RcvIdle

(***************************************************************************)
(* The clients                                                             *)
(***************************************************************************)
\* the connections in the order in which accept (line 74) returns them
AcceptOrder == <<"c1", "c2">>

\* The accept loop (lines 73-78) runs until the server is interrupted; the
\* interrupt may come between any two of its statements.  A connection c is
\* accepted (conn[c] # "new"), then listed, then its thread is started
\* (pc[c] # "none").

\* line 74: accept returns the next connection, once the thread of the one
\* before it has been started
Accept(c) ==
    /\ stop = 0
    /\ conn[c] = "new"
    /\ \E i \in 1..Len(AcceptOrder) :
           /\ AcceptOrder[i] = c
           /\ \A j \in 1..(i - 1) : pc[AcceptOrder[j]] # "none"
    /\ conn' = [conn EXCEPT ![c] = "open"]
    /\ UNCHANGED <<root_dir, clients, inbox, pc, frame, sent, ninput, hist, rcv, stop, shut>>

\* line 76: self.clients.append(client_socket)
AcceptAppend(c) ==
    /\ stop = 0
    /\ conn[c] # "new"
    /\ pc[c] = "none"
    /\ c \notin Range(clients)
    /\ clients' = Append(clients, c)
    /\ UNCHANGED <<root_dir, conn, inbox, pc, frame, sent, ninput, hist, rcv, stop, shut>>

\* lines 77-78: the thread running handle_client(client_socket) is started
ThreadStart(c) ==
    /\ stop = 0
    /\ pc[c] = "none"
    /\ c \in Range(clients)
    /\ pc' = [pc EXCEPT ![c] = "recv"]
    /\ UNCHANGED <<root_dir, clients, conn, inbox, frame, sent, ninput, hist, rcv, stop, shut>>

\* client.py lines 138-142, 163-167: the client has read the reply to its last
\* command (receive_message), sends the next one and waits for the reply
ClientSend(c) ==
    /\ conn[c] = "open"
    /\ pc[c] = "recv"
    /\ inbox[c] = <<>>
    /\ ninput < MaxInputs
    /\ \E data \in Commands : inbox' = [inbox EXCEPT ![c] = data]
    /\ sent' = [sent EXCEPT ![c] = <<>>]
    /\ ninput' = ninput + 1
    /\ UNCHANGED <<root_dir, clients, conn, pc, frame, hist, rcv, stop, shut>>

\* client.py line 209: the client closes its socket.  With everything the
\* server wrote read by the client the close is an orderly end of stream;
\* with bytes of a response unread at the client the close resets the
\* connection.  sent[c] holds what was written since the client's last
\* command, which the client may or may not have read.
CloseOutcomes(c) == IF sent[c] = <<>> THEN {"closed"} ELSE {"closed", "reset"}

ClientClose(c) ==
    /\ conn[c] = "open"
    /\ ninput < MaxInputs
    /\ \E state \in CloseOutcomes(c) : conn' = [conn EXCEPT ![c] = state]
    /\ ninput' = ninput + 1
    /\ UNCHANGED <<root_dir, clients, inbox, pc, frame, sent, hist, rcv, stop, shut>>

\* the client's end goes away without a close and the connection is reset
ClientReset(c) ==
    /\ conn[c] = "open"
    /\ ninput < MaxInputs
    /\ conn' = [conn EXCEPT ![c] = "reset"]
    /\ ninput' = ninput + 1
    /\ UNCHANGED <<root_dir, clients, inbox, pc, frame, sent, hist, rcv, stop, shut>>

(***************************************************************************)
(* Server.start's except branches (lines 80-85) and Server.stop            *)
(***************************************************************************)
\* the position in self.clients the loop of line 285 looks at next; the
\* accept loop ends with the interrupt, and the loop starts at position 1
StopAt == IF stop = 0 THEN 1 ELSE stop

\* lines 285-287: the loop of stop finds the socket of c at its position
\* and closes it
StopClose(c) ==
    /\ stop >= 0
    /\ stop = 0 => ninput < MaxInputs
    /\ StopAt <= Len(clients)
    /\ clients[StopAt] = c
    /\ shut' = shut \cup {c}
    /\ stop' = StopAt + 1
    /\ ninput' = IF stop = 0 THEN ninput + 1 ELSE ninput
    /\ UNCHANGED <<root_dir, clients, conn, inbox, pc, frame, sent, hist, rcv>>

\* lines 285, 291-295: the list has no further socket; the listening socket
\* is closed and stop returns
StopFinish ==
    /\ stop >= 0
    /\ stop = 0 => ninput < MaxInputs
    /\ StopAt > Len(clients)
    /\ stop' = 0 - 1
    /\ ninput' = IF stop = 0 THEN ninput + 1 ELSE ninput
    /\ UNCHANGED <<root_dir, clients, conn, inbox, pc, frame, sent, hist, rcv, shut>>

(***************************************************************************)
(* handle_client: how a request ends                                       *)
(***************************************************************************)
\* a send of the try block raised r: except ConnectionResetError (lines
\* 171-174) removes the socket; except Exception (lines 175-184) tries the
\* notification on the same socket, which raises as well; the thread ends
SendRaised(c, r) ==
    /\ pc' = [pc EXCEPT ![c] = "done"]
    /\ clients' = IF r = "ConnectionResetError" THEN remove(clients, c) ELSE clients
    /\ frame' = [frame EXCEPT ![c] = [Frame0 EXCEPT !.raised = r]]
    /\ conn' = conn

\* the handler has its response `sends` ready: the header and the payload,
\* each written by a send call of its own (the steps Send)
Reply(c, sends) ==
    /\ sent' = [sent EXCEPT ![c] = <<>>]
    /\ conn' = conn
    /\ clients' = clients
    /\ pc' = [pc EXCEPT ![c] = "send"]
    /\ frame' = [frame EXCEPT ![c] = [Frame0 EXCEPT !.response = sends]]

\* the handler raises `exc` before it wrote anything: lines 175-184, one
\* attempt to send the notification
Raise(c, exc) ==
    \E r \in SendOutcomes(c) :
        /\ sent' = [sent EXCEPT ![c] = IF r = "ok" THEN error_notice ELSE <<>>]
        /\ conn' = [conn EXCEPT ![c] = IF r = "ok" THEN Written(@) ELSE @]
        /\ pc' = [pc EXCEPT ![c] = "done"]
        /\ clients' = clients
        /\ frame' = [frame EXCEPT ![c] = [Frame0 EXCEPT !.raised = exc]]

\* line 107: recv returns the command the client sent; what was received
\* before the peer closed or reset the connection is still returned, also to a
\* recv that was waiting when Server.stop closed the socket
Received(c) == pc[c] = "recv" /\ inbox[c] # <<>>

(***************************************************************************)
(* handle_client: recv                                                     *)
(***************************************************************************)
\* lines 107-109: recv returns b'' after the peer closed; the loop ends
RecvClosed(c) ==
    /\ pc[c] = "recv"
    /\ conn[c] \in {"closed", "closed_written"}
    /\ inbox[c] = <<>>
    /\ pc' = [pc EXCEPT ![c] = "done"]
    /\ UNCHANGED <<root_dir, clients, conn, inbox, frame, sent, ninput, hist, rcv, stop, shut>>

\* lines 107, 171-174: recv raises ConnectionResetError
RecvReset(c) ==
    /\ pc[c] = "recv"
    /\ conn[c] = "reset"
    /\ inbox[c] = <<>>
    /\ pc' = [pc EXCEPT ![c] = "done"]
    /\ clients' = remove(clients, c)
    /\ frame' = [frame EXCEPT ![c] = [@ EXCEPT !.raised = "ConnectionResetError"]]
    /\ UNCHANGED <<root_dir, conn, inbox, sent, ninput, hist, rcv, stop, shut>>

\* lines 107, 175-184: recv is called on a socket Server.stop has closed and
\* raises OSError, and so does the send of the notification
RecvShut(c) ==
    /\ pc[c] = "recv"
    /\ c \in shut
    /\ pc' = [pc EXCEPT ![c] = "done"]
    /\ frame' = [frame EXCEPT ![c] = [@ EXCEPT !.raised = "OSError"]]
    /\ UNCHANGED <<root_dir, clients, conn, inbox, sent, ninput, hist, rcv, stop, shut>>

\* one send call of a response: the header (lines 124, 140, 146, 156, 161,
\* 168), then the payload (lines 125, 142, 150, 157, 163, 169); after the
\* payload the loop is back at recv
Send(c) ==
    /\ pc[c] = "send"
    /\ \E r \in SendOutcomes(c) :
           IF r = "ok"
           THEN /\ sent' = [sent EXCEPT ![c] = Append(@, Head(frame[c].response))]
                /\ conn' = [conn EXCEPT ![c] = Written(@)]
                /\ clients' = clients
                /\ pc' = [pc EXCEPT ![c] = IF Tail(frame[c].response) = <<>> THEN "recv"
                                            ELSE "send"]
                /\ frame' = [frame EXCEPT ![c] = [Frame0 EXCEPT !.response = Tail(frame[c].response)]]
           ELSE /\ sent' = sent
                /\ SendRaised(c, r)
    /\ UNCHANGED <<root_dir, inbox, ninput, hist, rcv, stop, shut>>

\* line 113: command, *arguments = data.split() raises ValueError on blank data
ParseError(c) ==
    /\ Received(c)
    /\ \E words \in {split(inbox[c])} : words = <<>>
    /\ inbox' = [inbox EXCEPT ![c] = <<>>]
    /\ Raise(c, "ValueError")
    /\ UNCHANGED <<root_dir, ninput, hist, rcv, stop, shut>>

\* lines 164-169: any other verb
UnknownCommand(c) ==
    /\ Received(c)
    /\ \E words \in {split(inbox[c])} :
           /\ words # <<>>
           /\ dispatch(Head(words)) = "unknown"
    /\ inbox' = [inbox EXCEPT ![c] = <<>>]
    /\ Reply(c, framed(MSG_UNKNOWN))
    /\ UNCHANGED <<root_dir, ninput, hist, rcv, stop, shut>>

(***************************************************************************)
(* handle_client: cd                                                       *)
(***************************************************************************)
\* line 130: new_root = arguments[0] raises IndexError
CdNoArgument(c) ==
    /\ Received(c)
    /\ \E words \in {split(inbox[c])} :
           /\ words # <<>>
           /\ dispatch(Head(words)) = "cd"
           /\ Len(words) = 1
    /\ inbox' = [inbox EXCEPT ![c] = <<>>]
    /\ Raise(c, "IndexError")
    /\ UNCHANGED <<root_dir, ninput, hist, rcv, stop, shut>>

\* lines 133-135, 143-150: cd .. reads self.root_dir and tests its dirname
CdParent(c) ==
    /\ Received(c)
    /\ inbox' = [inbox EXCEPT ![c] = <<>>]
    /\ \E words \in {split(inbox[c])} :
           /\ words # <<>>
           /\ dispatch(Head(words)) = "cd"
           /\ Len(words) > 1
           /\ words[2] = PARDIR
           /\ LET parent_dir == dirname(root_dir)
                  fr == [Frame0 EXCEPT !.command = Head(words), !.checked_root = root_dir,
                                       !.seen_root = root_dir, !.new_root = parent_dir]
              IN  IF exists(parent_dir) /\ isdir(parent_dir)
                  THEN /\ pc' = [pc EXCEPT ![c] = "cd_parent_store"]
                       /\ frame' = [frame EXCEPT ![c] = fr]
                       /\ sent' = [sent EXCEPT ![c] = <<>>]
                       /\ UNCHANGED <<clients, conn, hist>>
                  ELSE /\ Reply(c, framed(MSG_ABOVE_ROOT))
                       /\ hist' = Stored(PARDIR, root_dir, root_dir, root_dir, root_dir,
                                          MSG_ABOVE_ROOT)
    /\ UNCHANGED <<root_dir, ninput, rcv, stop, shut>>

\* lines 136-139: self.root_dir = parent_dir; the response is "ОК"
CdParentStore(c) ==
    /\ pc[c] = "cd_parent_store"
    /\ root_dir' = frame[c].new_root
    /\ hist' = Stored(PARDIR, frame[c].checked_root, frame[c].seen_root, root_dir,
                       frame[c].new_root, MSG_OK)
    /\ Reply(c, framed(MSG_OK))
    /\ UNCHANGED <<inbox, ninput, rcv, stop, shut>>

\* lines 151, 158-163: cd <name> runs validate_new_root
CdName(c) ==
    /\ Received(c)
    /\ inbox' = [inbox EXCEPT ![c] = <<>>]
    /\ \E words \in {split(inbox[c])} :
           /\ words # <<>>
           /\ dispatch(Head(words)) = "cd"
           /\ Len(words) > 1
           /\ words[2] # PARDIR
           /\ LET new_root == words[2]
                  fr == [Frame0 EXCEPT !.command = Head(words), !.checked_root = root_dir,
                                       !.new_root = new_root]
              IN  IF validate_new_root(root_dir, new_root)
                  THEN /\ pc' = [pc EXCEPT ![c] = "cd_join"]
                       /\ frame' = [frame EXCEPT ![c] = fr]
                       /\ sent' = [sent EXCEPT ![c] = <<>>]
                       /\ UNCHANGED <<clients, conn, hist>>
                  ELSE /\ Reply(c, framed(MSG_INVALID_PATH))
                       /\ hist' = Stored(new_root, root_dir, root_dir, root_dir, root_dir,
                                          MSG_INVALID_PATH)
    /\ UNCHANGED <<root_dir, ninput, rcv, stop, shut>>

\* line 152, right-hand side: os.path.join(self.root_dir, new_root)
CdJoin(c) ==
    /\ pc[c] = "cd_join"
    /\ pc' = [pc EXCEPT ![c] = "cd_store"]
    /\ frame' = [frame EXCEPT ![c] = [@ EXCEPT !.seen_root = root_dir,
                                               !.path = join(root_dir, frame[c].new_root)]]
    /\ UNCHANGED <<root_dir, clients, conn, inbox, sent, ninput, hist, rcv, stop, shut>>

\* lines 152-155: the assignment of self.root_dir; the response is "ОК"
CdStore(c) ==
    /\ pc[c] = "cd_store"
    /\ root_dir' = frame[c].path
    /\ hist' = Stored(frame[c].new_root, frame[c].checked_root, frame[c].seen_root, root_dir,
                       frame[c].path, MSG_OK)
    /\ Reply(c, framed(MSG_OK))
    /\ UNCHANGED <<inbox, ninput, rcv, stop, shut>>

(***************************************************************************)
(* handle_client: ls, and get_files_info                                   *)
(***************************************************************************)
\* lines 116-120: the argument of get_files_info is directory_path or self.root_dir
LsBegin(c) ==
    /\ Received(c)
    /\ inbox' = [inbox EXCEPT ![c] = <<>>]
    /\ \E words \in {split(inbox[c])} :
           /\ words # <<>>
           /\ dispatch(Head(words)) = "ls"
           /\ LET arguments == Tail(words)
                  directory_path == IF arguments # <<>> THEN arguments[1] ELSE <<>>
              IN  frame' = [frame EXCEPT ![c] =
                       [Frame0 EXCEPT !.command = Head(words),
                                      !.path = IF directory_path # <<>> THEN directory_path
                                               ELSE root_dir]]
    /\ pc' = [pc EXCEPT ![c] = "ls_join"]
    /\ sent' = [sent EXCEPT ![c] = <<>>]
    /\ UNCHANGED <<root_dir, clients, conn, ninput, hist, rcv, stop, shut>>

\* the existence test lost: no path is ever reported missing
\* line 218: not os.path.exists(target_path)
path_missing(target_path) == ~exists(target_path)

\* lines 215-224: target_path, the existence test, the start of os.walk
LsJoin(c) ==
    /\ pc[c] = "ls_join"
    /\ \E target_path \in {join(root_dir, frame[c].path)} :
           IF path_missing(target_path)
           THEN /\ frame' = [frame EXCEPT ![c] =
                        [@ EXCEPT !.seen_root = root_dir,
                                  !.files_info = <<StrItem(KEY_ERROR, MSG_NO_PATH)>>]]
                /\ pc' = [pc EXCEPT ![c] = "ls_reply"]
           ELSE \E roots \in {walk(target_path)} :
                /\ frame' = [frame EXCEPT ![c] =
                        [@ EXCEPT !.seen_root = root_dir, !.roots = roots, !.lvl = 1]]
                /\ pc' = [pc EXCEPT ![c] = IF roots = <<>> THEN "ls_reply" ELSE "ls_relpath"]
    /\ UNCHANGED <<root_dir, clients, conn, inbox, sent, ninput, hist, rcv, stop, shut>>

\* lines 225-229: the key of this level and the names tentatively shown
LsRelpath(c) ==
    /\ pc[c] = "ls_relpath"
    /\ LET root == frame[c].roots[frame[c].lvl]
       IN  frame' = [frame EXCEPT ![c] =
                [@ EXCEPT !.relative_root = relpath(root, root_dir),
                          !.dirs_to_show = Take(ListDirs(root), MAX_ITEMS \div 2),
                          !.files_to_show = Take(ListFiles(root), MAX_ITEMS \div 2)]]
    /\ pc' = [pc EXCEPT ![c] = "ls_trial"]
    /\ UNCHANGED <<root_dir, clients, conn, inbox, sent, ninput, hist, rcv, stop, shut>>

\* lines 231-249 and 251-258: the trial response is built with self.root_dir
\* (here `current`) and measured; over budget, a name is dropped from each list
\* and the trial is built again; within budget, or with nothing left to drop,
\* lines 260-274 follow.  The result is the thread's next frame and position
trial(f, current) ==
    LET root == f.roots[f.lvl]
        over == json_len(test_response(f.files_info, f.relative_root, f.dirs_to_show,
                                       f.files_to_show, current)) > MAX_RESPONSE_SIZE
        adding_allow == ~over
        added == IF adding_allow
                 THEN add_entry(f.files_info, f.relative_root, f.dirs_to_show,
                                f.files_to_show, ListDirs(root), ListFiles(root))
                 ELSE f.files_info
    IN  IF over /\ (f.dirs_to_show # <<>> \/ f.files_to_show # <<>>)
        THEN [frame |-> [f EXCEPT !.dirs_to_show = IF @ # <<>> THEN Front(@) ELSE @,
                                  !.files_to_show = IF @ # <<>> THEN Front(@) ELSE @],
              pc |-> "ls_trial"]
        ELSE IF walk_stops(added, adding_allow)
        THEN [frame |-> [f EXCEPT !.files_info = DictSet(added, StrItem(KEY_WARNING, MSG_PARTIAL))],
              pc |-> "ls_reply"]
        ELSE [frame |-> [f EXCEPT !.files_info = added, !.lvl = @ + 1],
              pc |-> IF f.lvl < Len(f.roots) THEN "ls_relpath" ELSE "ls_reply"]

\* one round of the trimming loop, or the end of the level
LsTrial(c) ==
    /\ pc[c] = "ls_trial"
    /\ \E next \in {trial(frame[c], root_dir)} :
           /\ frame' = [frame EXCEPT ![c] = next.frame]
           /\ pc' = [pc EXCEPT ![c] = next.pc]
    /\ UNCHANGED <<root_dir, clients, conn, inbox, sent, ninput, hist, rcv, stop, shut>>

\* the reply with the requested path as current_path
LsReply_target(c) ==
    /\ pc[c] = "ls_reply"
    /\ LET files_info == DictSet(frame[c].files_info,
                                 StrItem(KEY_CURRENT_PATH, join(root_dir, frame[c].path)))
       IN  Reply(c, framed_json(files_info))
    /\ UNCHANGED <<root_dir, inbox, ninput, hist, rcv, stop, shut>>

\* lines 121-123: current_path is set and the listing is serialised; the
\* send calls of lines 124-125 are steps of their own
LsReply(c) ==
    /\ pc[c] = "ls_reply"
    /\ LET files_info == DictSet(frame[c].files_info, StrItem(KEY_CURRENT_PATH, root_dir))
       IN  Reply(c, framed_json(files_info))
    /\ UNCHANGED <<root_dir, inbox, ninput, hist, rcv, stop, shut>>

Next ==
    \/ StopFinish
    \/ \E c \in Clients :
        \/ StopClose(c)
        \/ RecvShut(c)
        \/ Send(c)
        \/ Accept(c)
        \/ AcceptAppend(c)
        \/ ThreadStart(c)
        \/ ClientSend(c)
        \/ ClientClose(c)
        \/ ClientReset(c)
        \/ RecvClosed(c)
        \/ RecvReset(c)
        \/ ParseError(c)
        \/ UnknownCommand(c)
        \/ CdNoArgument(c)
        \/ CdParent(c)
        \/ CdParentStore(c)
        \/ CdName(c)
        \/ CdJoin(c)
        \/ CdStore(c)
        \/ LsBegin(c)
        \/ LsJoin(c)
        \/ LsRelpath(c)
        \/ LsTrial(c)
        \/ LsReply(c)

Spec == Init /\ [][Next]_vars

(***************************************************************************)
(* client.py: Client.receive_message, reading what a peer writes on the    *)
(* connection.  Here the bytes themselves are modelled.  The peer writes   *)
(* a stream in pieces of any size and may close its end at any point.      *)
(***************************************************************************)
\* socket.recv size of one payload read (client.py line 119)
RECV_CHUNK == 4096

\* the UTF-8 bytes of one code point
Utf8Bytes(cp) ==
    IF cp < 128 THEN <<cp>>
    ELSE IF cp < 2048 THEN <<192 + (cp \div 64), 128 + (cp % 64)>>
    ELSE IF cp < 65536
    THEN <<224 + (cp \div 4096), 128 + ((cp \div 64) % 64), 128 + (cp % 64)>>
    ELSE <<240 + (cp \div 262144), 128 + ((cp \div 4096) % 64), 128 + ((cp \div 64) % 64),
           128 + (cp % 64)>>

\* s.encode('utf-8')
encode(s) == Flatten([i \in 1..Len(s) |-> Utf8Bytes(s[i])])

\* number of bytes of the UTF-8 sequence a lead byte starts, 0 for no lead byte
SeqLen(b1) ==
    IF b1 < 128 THEN 1
    ELSE IF b1 >= 194 /\ b1 <= 223 THEN 2
    ELSE IF b1 >= 224 /\ b1 <= 239 THEN 3
    ELSE IF b1 >= 240 /\ b1 <= 244 THEN 4
    ELSE 0

\* the values the second byte of a sequence may take (no overlong forms, no
\* surrogates, nothing above U+10FFFF)
SecondOk(b1, b2) ==
    IF b1 = 224 THEN b2 >= 160 /\ b2 <= 191
    ELSE IF b1 = 237 THEN b2 >= 128 /\ b2 <= 159
    ELSE IF b1 = 240 THEN b2 >= 144 /\ b2 <= 191
    ELSE IF b1 = 244 THEN b2 >= 128 /\ b2 <= 143
    ELSE b2 >= 128 /\ b2 <= 191

\* bytes.decode('utf-8') from byte i on: the text, or ok = FALSE where Python
\* raises UnicodeDecodeError
RECURSIVE DecodeFrom(_, _, _)
DecodeFrom(b, i, acc) ==
    IF i > Len(b) THEN [ok |-> TRUE, text |-> acc]
    ELSE LET n == SeqLen(b[i])
         IN  IF n = 0 \/ i + n - 1 > Len(b) THEN [ok |-> FALSE, text |-> <<>>]
             ELSE IF n >= 2 /\ ~SecondOk(b[i], b[i + 1]) THEN [ok |-> FALSE, text |-> <<>>]
             ELSE IF \E j \in 2..(n - 1) : b[i + j] < 128 \/ b[i + j] > 191
             THEN [ok |-> FALSE, text |-> <<>>]
             ELSE LET cp == IF n = 1 THEN b[i]
                            ELSE IF n = 2 THEN (b[i] - 192) * 64 + (b[i + 1] - 128)
                            ELSE IF n = 3
                            THEN (b[i] - 224) * 4096 + (b[i + 1] - 128) * 64 + (b[i + 2] - 128)
                            ELSE (b[i] - 240) * 262144 + (b[i + 1] - 128) * 4096
                                 + (b[i + 2] - 128) * 64 + (b[i + 3] - 128)
                  IN  DecodeFrom(b, i + n, Append(acc, cp))

decode(b) == DecodeFrom(b, 1, <<>>)

\* the bytes one send() call of the server puts on the connection: a header,
\* a str payload, or the text of json.dumps (lines 122-123)
SendBytes(x) ==
    IF x.kind = "header" THEN x.bytes
    ELSE IF x.kind = "json" THEN encode(json_dumps(x.obj))
    ELSE encode(x.text)

WireBytes(sends) == Flatten([i \in 1..Len(sends) |-> SendBytes(sends[i])])

\* what the peer writes during one receive_message: the "ОК" response, twice
\* (the second one is the next response), the notification that has no
\* length header, or the listing of a path that does not exist
PeerStreams ==
    { WireBytes(framed(MSG_OK) \o framed(MSG_OK)), WireBytes(error_notice),
      WireBytes(framed_json(<<StrItem(KEY_CURRENT_PATH, InstallDir)>>)) }

\* message_length = struct.unpack('!I', length_bytes)[0] is 2^31 or more, more
\* than any number of bytes a stream of the model has
Huge(length_bytes) == length_bytes[1] >= 128

\* bytes_received < message_length (line 117)
Incomplete(length_bytes, bytes_received) ==
    IF Huge(length_bytes) THEN TRUE ELSE bytes_received < unpack(length_bytes)

\* min(message_length - bytes_received, 4096) (line 119)
ChunkSize(length_bytes, bytes_received) ==
    IF Huge(length_bytes) THEN RECV_CHUNK
    ELSE IF unpack(length_bytes) - bytes_received > RECV_CHUNK THEN RECV_CHUNK
    ELSE unpack(length_bytes) - bytes_received

\* the client calls receive_message on a fresh connection
InitReceive ==
    /\ ServerInit
    /\ rcv \in { [RcvIdle EXCEPT !.pc = "header", !.tosend = s] : s \in PeerStreams }

\* the next n bytes of the peer arrive
PeerSend(n) ==
    /\ ~rcv.eof
    /\ n \in 1..Len(rcv.tosend)
    /\ rcv' = [rcv EXCEPT !.wire = @ \o SubSeq(rcv.tosend, 1, n),
                          !.tosend = SubSeq(@, n + 1, Len(@))]
    /\ UNCHANGED <<root_dir, clients, conn, inbox, pc, frame, sent, ninput, hist, stop, shut>>

\* the peer closes its end; what it had not written is never sent.  With
\* everything the client sent read by the peer the close is an orderly end of
\* stream; with the client's command unread at the peer it resets the
\* connection
PeerClose ==
    /\ ~rcv.eof
    /\ \E reset \in BOOLEAN : rcv' = [rcv EXCEPT !.eof = TRUE, !.reset = reset, !.tosend = <<>>]
    /\ UNCHANGED <<root_dir, clients, conn, inbox, pc, frame, sent, ninput, hist, stop, shut>>

\* lines 110-113: recv(4) returns the bytes that have arrived, at most 4; with
\* none left it returns b'' at end of stream and raises on a reset
\* connection; struct.unpack raises on fewer than 4 bytes
RecvHeader ==
    /\ rcv.pc = "header"
    /\ rcv.wire # <<>> \/ rcv.eof
    /\ LET length_bytes == Take(rcv.wire, 4)
           rest == SubSeq(rcv.wire, Len(length_bytes) + 1, Len(rcv.wire))
       IN  IF length_bytes = <<>>
           THEN rcv' = [rcv EXCEPT !.pc = "returned",
                                   !.result = [kind |-> IF rcv.reset THEN "ConnectionResetError"
                                                        ELSE "None",
                                               text |-> <<>>]]
           ELSE IF Len(length_bytes) < 4
           THEN rcv' = [rcv EXCEPT !.pc = "returned", !.wire = rest,
                                   !.result = [kind |-> "struct.error", text |-> <<>>]]
           ELSE rcv' = [rcv EXCEPT !.pc = "payload", !.wire = rest,
                                   !.length_bytes = length_bytes]
    /\ UNCHANGED <<root_dir, clients, conn, inbox, pc, frame, sent, ninput, hist, stop, shut>>

\* lines 117-123: one pass of the loop; an empty chunk ends it, and the recv of
\* line 118 raises on a reset connection with no bytes left
RecvChunk ==
    /\ rcv.pc = "payload"
    /\ Incomplete(rcv.length_bytes, rcv.bytes_received)
    /\ rcv.wire # <<>> \/ rcv.eof
    /\ LET chunk == Take(rcv.wire, ChunkSize(rcv.length_bytes, rcv.bytes_received))
       IN  IF chunk = <<>>
           THEN IF rcv.reset
                THEN rcv' = [rcv EXCEPT !.pc = "returned",
                                        !.result = [kind |-> "ConnectionResetError",
                                                    text |-> <<>>]]
                ELSE rcv' = [rcv EXCEPT !.pc = "join"]
           ELSE rcv' = [rcv EXCEPT !.chunks = @ \o chunk,
                                   !.bytes_received = @ + Len(chunk),
                                   !.wire = SubSeq(@, Len(chunk) + 1, Len(@))]
    /\ UNCHANGED <<root_dir, clients, conn, inbox, pc, frame, sent, ninput, hist, stop, shut>>

\* line 125: return b''.join(chunks).decode('utf-8')
Return ==
    /\ IF rcv.pc = "payload" THEN ~Incomplete(rcv.length_bytes, rcv.bytes_received)
       ELSE rcv.pc = "join"
    /\ LET r == decode(rcv.chunks)
       IN  rcv' = [rcv EXCEPT !.pc = "returned",
                              !.result = IF r.ok THEN [kind |-> "str", text |-> r.text]
                                         ELSE [kind |-> "UnicodeDecodeError", text |-> <<>>]]
    /\ UNCHANGED <<root_dir, clients, conn, inbox, pc, frame, sent, ninput, hist, stop, shut>>

NextReceive ==
    \/ \E n \in 1..Len(rcv.tosend) : PeerSend(n)
    \/ PeerClose
    \/ RecvHeader
    \/ RecvChunk
    \/ Return

SpecReceive == InitReceive /\ [][NextReceive]_vars

(***************************************************************************)
(* Vocabulary of the properties                                            *)
(***************************************************************************)
IsPrefix(s, q) == Len(s) <= Len(q) /\ s = SubSeq(q, 1, Len(s))

\* the step in which the worker of c takes the command the client sent
Dispatching(c) == Received(c) /\ inbox'[c] = <<>>

\* the path names the filesystem root "/"
NamesTop(path) == isdir(path) /\ Resolve(path).node = <<>>

\* the path names a directory that has a parent directory
HasParent(path) == isdir(path) /\ Resolve(path).node # <<>>

\* hist is the record of a cd <name> (not "..") that was answered
NamedCd(h) == h.arg # <<>> /\ h.arg # PARDIR

\* the send() calls form whole messages: a 4-byte header whose big-endian
\* value is the length of the payload that follows it (the last payload may
\* still be missing)
WellFramed(s) ==
    \A i \in 1..Len(s) :
        IF i % 2 = 1
        THEN s[i].kind = "header" /\ s[i].len = 4
        ELSE s[i].kind # "header" /\ s[i].len = unpack(s[i - 1].bytes)

\* the local client_socket of Server.start (line 74): the connection accepted
\* last, until accept returns the next one or Server.start returns
client_socket ==
    LET accepted == {i \in 1..Len(AcceptOrder) : conn[AcceptOrder[i]] # "new"}
    IN  IF accepted = {} \/ stop = 0 - 1 THEN "none"
        ELSE AcceptOrder[CHOOSE i \in accepted : \A j \in accepted : j <= i]

\* the server's socket of c is closed: handle_client never calls close(), so
\* the socket is closed by Server.stop, or once nothing refers to it any
\* more: neither a running thread (its client_socket), nor the list
\* self.clients, nor the local client_socket of Server.start
socket_closed(c) ==
    \/ c \in shut
    \/ /\ conn[c] # "new"
       /\ pc[c] \in {"none", "done"}
       /\ c \notin Range(clients)
       /\ c # client_socket

\* the worker of c ended because parsing its command raised
ParseRaised(c) == frame[c].raised \in {"IndexError", "ValueError"}

\* the trial response of the level the worker of c is at (listing so far, this
\* level with the names still shown, current_path) is over the budget
TrialOver(c) ==
    LET f == frame[c]
        withLevel == DictSet(f.files_info,
                             [k |-> f.relative_root, kind |-> "entry", s |-> <<>>,
                              dirs |-> f.dirs_to_show, files |-> f.files_to_show,
                              hasw |-> FALSE, w |-> <<>>])
    IN  json_len(DictSet(withLevel, [k |-> KEY_CURRENT_PATH, kind |-> "str", s |-> root_dir,
                                     dirs |-> <<>>, files |-> <<>>, hasw |-> FALSE,
                                     w |-> <<>>])) > MAX_RESPONSE_SIZE

\* the step in which the worker of c is done with a level whose trial is
\* within the budget: the level is added
LevelAdded(c) == pc[c] = "ls_trial" /\ pc'[c] # "ls_trial" /\ ~TrialOver(c)

\* the first n names of a list, none for n < 0
FirstNames(names, n) == SubSeq(names, 1, IF n < 0 THEN 0 ELSE n)

\* the names of a level tentatively shown: at most half of MAX_ITEMS
Capped(names) == IF Len(names) < MAX_ITEMS \div 2 THEN Len(names) ELSE MAX_ITEMS \div 2

\* the text "Показано d директорий и f файлов из D директорий и F файлов"
ShownOutOf(d, f, D, F) ==
    W_SHOWN \o DecStr(d) \o W_DIRS_AND \o DecStr(f) \o W_FILES_OF
            \o DecStr(D) \o W_DIRS_AND \o DecStr(F) \o W_FILES

(***************************************************************************)
(* Properties                                                              *)
(***************************************************************************)
\* C1: every ls response the server serialises is an error or a listing of at
\* most 2048 bytes (entries, their warnings, the top-level warning and
\* current_path included).
C1_ResponseWithinBudget ==
    \A c \in Clients : \A i \in 1..Len(sent[c]) :
        sent[c][i].kind = "json" =>
            DictHas(sent[c][i].obj, KEY_ERROR) \/ sent[c][i].len <= MAX_RESPONSE_SIZE

\* C2: in every reachable state, with sessions issuing cd concurrently over the
\* unchanging tree, root_dir names an existing directory.
C2_RootIsDirectory == exists(root_dir) /\ isdir(root_dir)

\* C3: a cd .. handled while the root is the filesystem root is answered with the
\* cannot-go-above-the-root message and leaves the root unchanged, every time.
C3_CdParentAtTopFails ==
    (hist.arg = PARDIR /\ NamesTop(hist.checked)) =>
        (hist.response = MSG_ABOVE_ROOT /\ hist.after = hist.before)

\* C4: a cd .. handled while the root has an existing parent directory is
\* answered OK and the new root is the old root with exactly its last path
\* segment removed.
C4_CdParentDropsLastSegment ==
    (hist.arg = PARDIR /\ HasParent(hist.checked)) =>
        ( /\ hist.response = MSG_OK
          /\ Segments(hist.after) = Front(Segments(hist.checked))
          /\ Resolve(hist.after).node = Front(Resolve(hist.checked).node) )

\* C5: when a cd X answered OK, with X an existing subdirectory of the root R
\* it replaced, is followed by a cd .. answered OK with no other cd in between,
\* the root is R again.
C5_CdThenParentRestores ==
    [][ ( /\ hist' # hist
          /\ hist'.arg = PARDIR /\ hist'.response = MSG_OK
          /\ NamedCd(hist) /\ hist.response = MSG_OK
          /\ hist.read = hist.before /\ hist.after = root_dir
          /\ hist'.checked = root_dir /\ hist'.before = root_dir
          /\ HasParent(join(hist.before, hist.arg))
          /\ ~StartsWith(hist.arg, SEP) )
        => root_dir' = hist.before ]_vars

\* C6: a cd argument other than ".." is taken relative to the current root,
\* never as an absolute path: after a cd X answered OK the new root is the old
\* root extended by X.
C6_CdIsRelative ==
    (NamedCd(hist) /\ hist.response = MSG_OK) =>
        ( /\ StartsWith(hist.after, hist.before)
          /\ Segments(hist.after) = Segments(hist.before) \o Segments(hist.arg) )

\* C7: a cd <name> whose target, the root joined with the argument, does not
\* exist or is not a directory is answered with exactly the
\* invalid-directory-path message, and the request leaves the root as it was.
C7_InvalidTargetRejected ==
    (NamedCd(hist) /\ ~(exists(join(hist.checked, hist.arg))
                        /\ isdir(join(hist.checked, hist.arg)))) =>
        ( /\ hist.response = MSG_INVALID_PATH
          /\ hist.after = hist.before
          /\ hist.before = hist.checked )

\* C7 witness: a cd to a missing directory has been answered with the
\* message, framed, and the root is still the installation directory
C7_Witness ==
    /\ NamedCd(hist)
    /\ ~exists(join(hist.checked, hist.arg))
    /\ hist.response = MSG_INVALID_PATH
    /\ root_dir = InstallDir
    /\ \E c \in Clients : sent[c] = framed(MSG_INVALID_PATH)

\* C8: root_dir changes only in the step of a worker that handles a cd command
\* and answers it OK (the response it goes on to write is the framed OK); a
\* command with an unknown verb is answered with exactly the unknown-command
\* string and leaves the root as it was; a send call writes the next part of
\* the response and nothing else; no other step (ls, failed cd, accept, close,
\* reset, stop, a raised error) changes the root.
C8_RootChangesOnlyOnCdOk ==
    [][ /\ root_dir' # root_dir =>
              \E c \in Clients :
                  /\ frame[c].command = CMD_CD
                  /\ pc[c] \in {"cd_store", "cd_parent_store"}
                  /\ pc'[c] = "send"
                  /\ frame'[c].response = framed(MSG_OK)
                  /\ hist'.response = MSG_OK
        /\ \A c \in Clients :
              /\ (Dispatching(c) /\ split(inbox[c]) # <<>>
                    /\ Head(split(inbox[c])) \notin {CMD_LS, CMD_CD}) =>
                     /\ pc'[c] = "send"
                     /\ frame'[c].response = framed(MSG_UNKNOWN)
                     /\ root_dir' = root_dir
              /\ (pc[c] = "send" /\ frame'[c] # frame[c] /\ pc'[c] # "done") =>
                     /\ sent'[c] \o frame'[c].response = sent[c] \o frame[c].response
                     /\ Len(sent'[c]) = Len(sent[c]) + 1
                     /\ pc'[c] = "recv" <=> frame'[c].response = <<>>
      ]_vars

\* C8 witness: a cd answered OK has changed the root, and a command with an
\* unknown verb has been answered
C8_Witness ==
    /\ root_dir # InstallDir
    /\ hist.response = MSG_OK
    /\ hist.after = root_dir
    /\ \E c \in Clients : sent[c] = framed(MSG_UNKNOWN)

\* C9: everything the server writes to a client socket, the error notification
\* included, is a 4-byte big-endian length header followed by that many bytes.
C9_EveryWriteIsFramed == \A c \in Clients : WellFramed(sent[c])

\* C10: while the server runs, once the worker of a connection has
\* terminated, the connection is not in Server.clients.
C10_TerminatedNotListed ==
    \A c \in Clients : (pc[c] = "done" /\ stop = 0) => c \notin Range(clients)

\* C11: after a command whose parse raises (cd with no argument, a blank
\* line), the worker has made one attempt to notify the client, its read loop
\* has stopped, the connection is dropped (the server's socket is closed).
C11_ParseErrorDropsSession ==
    \A c \in Clients :
        ParseRaised(c) =>
            /\ pc[c] = "done"
            /\ IsPrefix(sent[c], error_notice)
            /\ socket_closed(c)

\* the directories whose scan raises PermissionError during a whole
\* os.walk(top)
RECURSIVE Denied(_)
Denied(top) ==
    IF Unreadable(Resolve(top).node) THEN <<top>>
    ELSE Flatten([i \in 1..Len(ListDirs(top)) |-> Denied(join(top, ListDirs(top)[i]))])

\* the ls of the worker of c has failed: its target path does not exist, or
\* its walk has run to its end and met a directory it may not read
LsFailed(c) ==
    LET target_path == join(frame[c].seen_root, frame[c].path)
    IN  \/ ~exists(target_path)
        \/ /\ isdir(target_path)
           /\ frame[c].lvl > Len(frame[c].roots)
           /\ Denied(target_path) # <<>>

\* C12: an ls whose target path does not exist, or whose walk meets an error
\* (a directory it is not permitted to read), is answered with a response
\* that carries the error and neither directory entries nor a warning, and
\* after an error response the session is still open (unless the client has
\* left or the server has been stopped): the worker is back at recv and the
\* connection is still listed.
C12_FailedLsIsErrorOnly ==
    \A c \in Clients :
        /\ (pc[c] = "ls_reply" /\ LsFailed(c)) =>
               /\ Len(frame[c].files_info) = 1
               /\ frame[c].files_info[1].kind = "str"
               /\ frame[c].files_info[1].k = KEY_ERROR
        /\ \A i \in 1..Len(sent[c]) :
               (sent[c][i].kind = "json" /\ DictHas(sent[c][i].obj, KEY_ERROR)) =>
                   /\ \A j \in 1..Len(sent[c][i].obj) :
                          /\ sent[c][i].obj[j].kind = "str"
                          /\ sent[c][i].obj[j].k \in {KEY_ERROR, KEY_CURRENT_PATH}
                   /\ (conn[c] = "open" /\ c \notin shut) =>
                          (pc[c] = "recv" /\ c \in Range(clients))

C14_ListingUsesSharedRoot ==
    [][ \A c \in Clients :
          /\ (pc[c] = "ls_join" /\ pc'[c] # "ls_join") =>
                 /\ frame'[c].seen_root = root_dir
                 /\ (hist # NoStore => frame'[c].seen_root = hist.after)
                 /\ IF exists(join(root_dir, frame[c].path))
                    THEN frame'[c].roots = walk(join(root_dir, frame[c].path))
                    ELSE DictHas(frame'[c].files_info, KEY_ERROR)
          /\ (pc[c] = "ls_reply" /\ pc'[c] # "ls_reply") =>
                 /\ Len(frame'[c].response) = 2
                 /\ frame'[c].response[2].kind = "json"
                 /\ DictHas(frame'[c].response[2].obj, KEY_CURRENT_PATH)
                 /\ DictGet(frame'[c].response[2].obj, KEY_CURRENT_PATH).s = root_dir
                 /\ (hist # NoStore =>
                        DictGet(frame'[c].response[2].obj, KEY_CURRENT_PATH).s = hist.after)
      ]_vars

\* C14 witness: one session's cd has been answered OK and another session's
\* ls response reports the new root as current_path and lists it as "."
C14_Witness ==
    \E c, d \in Clients :
        /\ c # d
        /\ sent[c] = framed(MSG_OK)
        /\ hist.response = MSG_OK
        /\ root_dir = hist.after
        /\ root_dir # InstallDir
        /\ Len(sent[d]) = 2
        /\ sent[d][2].kind = "json"
        /\ DictHas(sent[d][2].obj, CURDIR)
        /\ DictGet(sent[d][2].obj, KEY_CURRENT_PATH).s = root_dir

\* C15: receive_message returns a message only when it has read exactly the
\* declared number of payload bytes; when the peer closes before any header
\* byte, or before the declared payload is complete, it returns no message
\* (None; an empty str is counted as no message here).
C15_ReceiveAllOrNothing ==
    rcv.pc = "returned" =>
        /\ (rcv.result.kind = "str" /\ rcv.result.text # <<>>) =>
               IF Huge(rcv.length_bytes) THEN FALSE
               ELSE rcv.bytes_received = unpack(rcv.length_bytes)
        /\ (rcv.eof /\ Incomplete(rcv.length_bytes, rcv.bytes_received)) =>
               (rcv.result.kind # "str" \/ rcv.result.text = <<>>)

\* C16: every entry added to a listing for a directory with more immediate
\* children than names shown carries a warning whose four numbers are the
\* shown directory count, the shown file count, the directory's total
\* directory count and its total file count; an entry that shows every child
\* carries none.
C16_EntryWarningCounts ==
    [][ \A c \in Clients :
          LevelAdded(c) =>
              LET root == frame[c].roots[frame[c].lvl]
                  key == frame[c].relative_root
                  D == Len(ListDirs(root))
                  F == Len(ListFiles(root))
              IN  /\ DictHas(frame'[c].files_info, key)
                  /\ LET e == DictGet(frame'[c].files_info, key)
                     IN  /\ e.kind = "entry"
                         /\ e.dirs = frame[c].dirs_to_show
                         /\ e.files = frame[c].files_to_show
                         /\ IF D + F > Len(e.dirs) + Len(e.files)
                            THEN e.hasw /\ e.w = ShownOutOf(Len(e.dirs), Len(e.files), D, F)
                            ELSE ~e.hasw
      ]_vars

\* C16 witness: a response lists "." with all its children and no warning, and
\* "g" with the first names of its 60 files and the warning that counts them
C16_Witness ==
    \E c \in Clients :
        /\ Len(sent[c]) = 2
        /\ sent[c][2].kind = "json"
        /\ DictHas(sent[c][2].obj, CURDIR)
        /\ ~DictGet(sent[c][2].obj, CURDIR).hasw
        /\ DictGet(sent[c][2].obj, CURDIR).dirs = <<N_c, N_g, N_a>>
        /\ DictHas(sent[c][2].obj, N_g)
        /\ DictGet(sent[c][2].obj, N_g).hasw
        /\ Len(DictGet(sent[c][2].obj, N_g).files) < BigDirFiles
        /\ DictGet(sent[c][2].obj, N_g).w =
               ShownOutOf(0, Len(DictGet(sent[c][2].obj, N_g).files), 0, BigDirFiles)

\* C17: at a level with subdirectories D and files F (in enumeration order)
\* the names shown after k rounds are the first max(0, min(50, |D|) - k)
\* subdirectories and the first max(0, min(50, |F|) - k) files; a round (one
\* trailing name off each non-empty list) is made exactly when the trial
\* serialization is over 2048 bytes and a list is non-empty, otherwise the
\* loop ends, and a level whose trial is within the budget is added with the
\* names shown then.  So k is the least number of rounds that brings the
\* trial within the budget, and no level shows more than 50 names of a kind.
C17_TrimToBudget ==
    [][ \A c \in Clients :
          (pc[c] = "ls_trial" /\ frame'[c] # frame[c]) =>
              LET f == frame[c]
                  root == f.roots[f.lvl]
                  D == ListDirs(root)
                  F == ListFiles(root)
                  kd == Capped(D) - Len(f.dirs_to_show)
                  kf == Capped(F) - Len(f.files_to_show)
                  k == IF kd > kf THEN kd ELSE kf
                  over == TrialOver(c)
              IN  /\ k \in 0..(MAX_ITEMS \div 2)
                  /\ f.dirs_to_show = FirstNames(D, Capped(D) - k)
                  /\ f.files_to_show = FirstNames(F, Capped(F) - k)
                  /\ IF over /\ (f.dirs_to_show # <<>> \/ f.files_to_show # <<>>)
                     THEN /\ pc'[c] = "ls_trial"
                          /\ frame'[c].files_info = f.files_info
                          /\ frame'[c].dirs_to_show =
                                 FirstNames(f.dirs_to_show, Len(f.dirs_to_show) - 1)
                          /\ frame'[c].files_to_show =
                                 FirstNames(f.files_to_show, Len(f.files_to_show) - 1)
                     ELSE /\ pc'[c] # "ls_trial"
                          /\ ~over =>
                                 /\ DictHas(frame'[c].files_info, f.relative_root)
                                 /\ DictGet(frame'[c].files_info, f.relative_root).dirs
                                        = f.dirs_to_show
                                 /\ DictGet(frame'[c].files_info, f.relative_root).files
                                        = f.files_to_show
      ]_vars

\* C17 witness: the response to 'ls w' lists the first 50 of the 500 files of
\* /s/w, with the warning counting 50 of 500
C17_Witness ==
    \E c \in Clients :
        /\ Len(sent[c]) = 2
        /\ sent[c][2].kind = "json"
        /\ DictHas(sent[c][2].obj, N_w)
        /\ DictGet(sent[c][2].obj, N_w).dirs = <<>>
        /\ DictGet(sent[c][2].obj, N_w).files = [i \in 1..(MAX_ITEMS \div 2) |-> DecStr(i)]
        /\ DictGet(sent[c][2].obj, N_w).w = ShownOutOf(0, MAX_ITEMS \div 2, 0, ManyFiles)

\* the directory entries of a listing, in insertion order
Entries(files_info) == SelectSeq(files_info, LAMBDA it : it.kind = "entry")

\* C18: the levels present in a listing are a prefix of the top-down walk
\* order starting with the walk root: while the walk is at its level number
\* lvl the listing holds one entry for each of the lvl - 1 levels before it,
\* in walk order, each with leading names of its level; a finished listing
\* holds the entries of the first n levels for some n.
C18_LevelsArePrefixOfWalk ==
    \A c \in Clients :
        (pc[c] \in {"ls_relpath", "ls_trial", "ls_reply"} /\ frame[c].roots # <<>>) =>
            LET f == frame[c]
                E == Entries(f.files_info)
            IN  /\ IF pc[c] = "ls_reply"
                   THEN Len(E) \in {f.lvl - 1, f.lvl} /\ Len(E) <= Len(f.roots)
                   ELSE Len(E) = f.lvl - 1
                /\ \A i \in 1..Len(E) :
                       i <= Len(f.roots) =>
                           /\ IsPrefix(E[i].dirs, ListDirs(f.roots[i]))
                           /\ IsPrefix(E[i].files, ListFiles(f.roots[i]))

\* a dict without the item of one key
Without(d, k) == SelectSeq(d, LAMBDA it : it.k # k)

\* C19: at the step that ends the trimming loop of a level: (1) when the
\* level is added and the accumulated listing serializes to more than 2048
\* bytes, the top-level warning is attached and the walk stops there; at the
\* step that ends the walk: (2) when every directory of the subtree was
\* visited and added within the budget, the listing has no top-level warning;
\* (3) when the listing lacks an entry for some directory of the subtree, it
\* has the top-level warning.
C19_PartialListingIsFlagged ==
    [][ \A c \in Clients :
          (pc[c] = "ls_trial" /\ pc'[c] # "ls_trial") =>
              LET g == frame'[c]
                  flagged == /\ DictHas(g.files_info, KEY_WARNING)
                             /\ DictGet(g.files_info, KEY_WARNING)
                                    = StrItem(KEY_WARNING, MSG_PARTIAL)
              IN  /\ (LevelAdded(c)
                        /\ json_len(Without(g.files_info, KEY_WARNING)) > MAX_RESPONSE_SIZE)
                         => (flagged /\ pc'[c] = "ls_reply" /\ g.lvl = frame[c].lvl)
                  /\ pc'[c] = "ls_reply" =>
                         /\ (g.lvl > Len(g.roots)
                               /\ Len(Entries(g.files_info)) = Len(g.roots)) => ~flagged
                         /\ Len(Entries(g.files_info)) < Len(g.roots) => flagged
      ]_vars

\* the thread of connection c takes a step
Steps(c) == pc'[c] # pc[c] \/ frame'[c] # frame[c] \/ sent'[c] # sent[c]

\* C20: one ls response is computed against a single root value: every later
\* read of self.root_dir during the request (for the key of a level, for a
\* size trial, for current_path) finds the value the target path was resolved
\* with, so every key is relative to it and current_path is it.
C20_OneRootPerListing ==
    [][ \A c \in Clients :
          (pc[c] \in {"ls_relpath", "ls_trial", "ls_reply"} /\ Steps(c)) =>
              /\ root_dir = frame[c].seen_root
              /\ pc[c] = "ls_relpath" =>
                     frame'[c].relative_root
                         = relpath(frame[c].roots[frame[c].lvl], frame[c].seen_root)
              /\ pc[c] = "ls_reply" =>
                     DictGet(frame'[c].response[2].obj, KEY_CURRENT_PATH)
                         = StrItem(KEY_CURRENT_PATH, frame[c].seen_root)
      ]_vars

\* the keys of the top-level fields of a response
TopLevelFields == {KEY_CURRENT_PATH, KEY_WARNING, KEY_ERROR}

\* C21: the key of a level never is the name of a top-level field; attaching
\* the top-level warning and writing current_path leave every entry of the
\* listing in place, so the response that is sent holds the entries the walk
\* added; and the response to a walk of an existing path has no key "error".
C21_KeysApartFromFields ==
    [][ \A c \in Clients :
          /\ (pc[c] = "ls_trial" /\ Steps(c)) =>
                 /\ frame[c].relative_root \notin TopLevelFields
                 /\ LevelAdded(c) =>
                        /\ DictHas(frame'[c].files_info, frame[c].relative_root)
                        /\ DictGet(frame'[c].files_info, frame[c].relative_root).kind = "entry"
          /\ (pc[c] = "ls_reply" /\ Steps(c)) =>
                 /\ Entries(frame'[c].response[2].obj) = Entries(frame[c].files_info)
                 /\ exists(join(frame[c].seen_root, frame[c].path)) =>
                        ~DictHas(frame'[c].response[2].obj, KEY_ERROR)
      ]_vars

====
